---------------------------- MODULE Spec2Model ----------------------------
(***************************************************************************)
(* Document scan quality engine and capture controller.                    *)
(*                                                                         *)
(*   DocumentScanner        utils/documentScanner   (src/unnamed/part_001) *)
(*   DocumentCaptureCamera  components/document-upload/                    *)
(*   DocumentUploadPortal   the camera's caller      (src/unnamed/part_002) *)
(*                                                                         *)
(* Numbers.  A pixel is <<r, g, b>> with 8-bit channels.  The luma         *)
(* 0.299 r + 0.587 g + 0.114 b is kept exactly, in thousandths             *)
(* (299 r + 587 g + 114 b).  For a gray pixel (r = g = b = v) the value the *)
(* code stores in its Float32Array is exactly v, and the double it compares *)
(* with 128 lies on the same side of 128 as v, so thousandths are exact for *)
(* the frames used here.  The sum of squared Laplacian responses exceeds 32 *)
(* bits, so it is kept as hi * 10^6 + lo (in thousandths squared, i.e. hi   *)
(* is the integer part of the sum in luma units squared).  A quotient the   *)
(* code computes in floating point is kept as numerator and denominator.    *)
(***************************************************************************)
EXTENDS Integers, Sequences, FiniteSets, TLC

VARIABLES
  \* ---- DocumentScanner -------------------------------------------------
  canvas,          \* this.canvas: [width, height, bitmap]
  \* ---- DocumentUploadPortal --------------------------------------------
  mode,            \* 'select' | 'camera'
  selectedType,    \* '' or a document type
  documents,       \* the CapturedDocument list
  \* ---- DocumentCaptureCamera (while the portal shows it) ---------------
  scanQuality,     \* <<>> (null) or <<ScanQuality>>
  capturedImage,   \* <<>> (null) or <<data URL>>
  isScanning,
  intervalActive,  \* the setInterval of the polling effect exists
  effectsPending,  \* a commit whose effect cleanup / effect run is still due
  micro,           \* continuations of the interval callback waiting at its await
  video,           \* the frame the Webcam's video element shows
  lastEvent,       \* the last step taken
  retaken,         \* a retake happened since the camera was last mounted
  shot,            \* <<>> or <<the frame on display at the last accepted Capture click>>
  ticked,          \* <<>> or <<the frame the last tick that returned a ScanQuality evaluated>>
  republished,     \* a ScanQuality was published since the last retake
  \* ---- the scanner called directly (ScanSpec) --------------------------
  ret,             \* what the last call of the scanner returned
  ref              \* an earlier return value kept for comparison

scanVars == <<canvas, ret, ref>>
portalVars == <<mode, selectedType, documents>>
cameraVars == <<scanQuality, capturedImage, isScanning, intervalActive, effectsPending,
                micro, video, lastEvent, retaken, shot, ticked,
                republished>>
vars == <<canvas, mode, selectedType, documents, scanQuality, capturedImage, isScanning,
          intervalActive, effectsPending, micro, video, lastEvent, retaken, shot, ticked,
          republished, ret, ref>>

---------------------------------------------------------------------------
(* Frames.  A frame is described by its size and its pattern; Pix gives    *)
(* the pixel at (x, y).                                                    *)

Black == <<0, 0, 0>>
White == <<255, 255, 255>>

GrayPx(v) == <<v, v, v>>

Frame(kind, w, h, a, b, x0, y0, x1, y1) ==
  [kind |-> kind, w |-> w, h |-> h, a |-> a, b |-> b,
   x0 |-> x0, y0 |-> y0, x1 |-> x1, y1 |-> y1]

Uniform(w, h, c) == Frame("uniform", w, h, c, c, 0, 0, 0, 0)

Checker(w, h, lo, hi) == Frame("checker", w, h, GrayPx(lo), GrayPx(hi), 0, 0, 0, 0)

\* a rectangle [x0, x1) x [y0, y1) of colour a on a background of colour b
Rect(w, h, a, b, x0, y0, x1, y1) == Frame("rect", w, h, a, b, x0, y0, x1, y1)

Pix(f, x, y) ==
  CASE f.kind = "uniform" -> f.a
    [] f.kind = "checker" -> IF (x + y) % 2 = 0 THEN f.a ELSE f.b
    [] f.kind = "rect" ->
         IF f.x0 <= x /\ x < f.x1 /\ f.y0 <= y /\ y < f.y1 THEN f.a ELSE f.b

---------------------------------------------------------------------------
(* DocumentScanner.calculateBlurScore                                      *)

\* 0.299 * data[i] + 0.587 * data[i + 1] + 0.114 * data[i + 2], in thousandths
Luma1000(p) == 299 * p[1] + 587 * p[2] + 114 * p[3]

\* gray[idx], the entry the grayscale loop wrote for pixel idx
Gray(img, idx) == Luma1000(Pix(img, idx % img.w, idx \div img.w))

\* mutant: the four diagonal neighbours left out
LaplacianNoDiagonals(img, x, y) ==
  LET width == img.w
      idx == y * width + x
  IN  0 - Gray(img, idx - width) - Gray(img, idx - 1) + 8 * Gray(img, idx)
        - Gray(img, idx + 1) - Gray(img, idx + width)

\* mutant: the four diagonal neighbours only, with centre weight 4
LaplacianDiagonalsOnly(img, x, y) ==
  LET width == img.w
      idx == y * width + x
  IN  0 - Gray(img, idx - width - 1) - Gray(img, idx - width + 1)
        + 4 * Gray(img, idx)
        - Gray(img, idx + width - 1) - Gray(img, idx + width + 1)

Laplacian(img, x, y) ==
  LET width == img.w
      idx == y * width + x
  IN  0 - Gray(img, idx - width - 1) - Gray(img, idx - width) - Gray(img, idx - width + 1)
        - Gray(img, idx - 1) + 8 * Gray(img, idx) - Gray(img, idx + 1)
        - Gray(img, idx + width - 1) - Gray(img, idx + width) - Gray(img, idx + width + 1)

Abs(n) == IF n < 0 THEN 0 - n ELSE n

\* variance += laplacian * laplacian, on variance = hi * 10^6 + lo
AddSquare(variance, laplacian) ==
  LET q == Abs(laplacian) \div 1000
      r == Abs(laplacian) % 1000
      cross == 2 * q * r
      lo == variance.lo + (cross % 1000) * 1000 + r * r
  IN  [hi |-> variance.hi + q * q + cross \div 1000 + lo \div 1000000,
       lo |-> lo % 1000000]

RECURSIVE BlurRow(_, _, _, _)
\* for (let x = ...; x < width - 1; x++)
\* (variance.hi >= 0 always holds; reading it evaluates the running sum at
\* each iteration, as the loop does)
BlurRow(img, y, x, variance) ==
  IF x < img.w - 1 /\ variance.hi >= 0
    THEN BlurRow(img, y, x + 1, AddSquare(variance, Laplacian(img, x, y)))
    ELSE variance

RECURSIVE BlurRows(_, _, _)
\* for (let y = ...; y < height - 1; y++)
BlurRows(img, y, variance) ==
  IF y < img.h - 1 /\ variance.hi >= 0
    THEN BlurRows(img, y + 1, BlurRow(img, y, 1, variance))
    ELSE variance

\* mutant: divided by the number of all pixels
calculateBlurScoreAllPixels(img) ==
  [variance |-> BlurRows(img, 1, [hi |-> 0, lo |-> 0]),
   count |-> img.w * img.h]

\* variance / ((width - 2) * (height - 2)), kept as the pair
calculateBlurScore(img) ==
  [variance |-> BlurRows(img, 1, [hi |-> 0, lo |-> 0]),
   count |-> (img.w - 2) * (img.h - 2)]

\* The quotient as a JavaScript number: 0 / 0 is NaN, 0 / negative is -0.
ScoreIsNaN(s) == s.count = 0 /\ s.variance = [hi |-> 0, lo |-> 0]
ScoreIsNegZero(s) == s.count < 0 /\ s.variance = [hi |-> 0, lo |-> 0]
ScoreIsZero(s) == s.count > 0 /\ s.variance = [hi |-> 0, lo |-> 0]
ScoreIsPositive(s) == s.count > 0 /\ s.variance # [hi |-> 0, lo |-> 0]

\* blurScore > 100 (false for NaN and for -0)
ScoreAbove100(s) ==
  /\ s.count > 0
  /\ \/ s.variance.hi > 100 * s.count
     \/ s.variance.hi = 100 * s.count /\ s.variance.lo > 0

\* s < t for two scores over the same number of interior pixels
ScoreLess(s, t) ==
  \/ s.variance.hi < t.variance.hi
  \/ s.variance.hi = t.variance.hi /\ s.variance.lo < t.variance.lo

---------------------------------------------------------------------------
(* DocumentScanner.detectDocumentEdges                                     *)

SetMin(S) == CHOOSE m \in S : \A n \in S : m <= n
SetMax(S) == CHOOSE m \in S : \A n \in S : m >= n

\* binary[idx] === 0: gray > 128 ? 255 : 0
IsForeground(img, x, y) == ~(Luma1000(Pix(img, x, y)) > 128000)

\* mutant: every third row and column
ScanPositionsEveryThird(img) ==
  {<<3 * i, 3 * j>> : i \in 0 .. ((img.w - 1) \div 3), j \in 0 .. ((img.h - 1) \div 3)}

\* the positions the two stride-4 loops visit
ScanPositions(img) ==
  {<<4 * i, 4 * j>> : i \in 0 .. ((img.w - 1) \div 4), j \in 0 .. ((img.h - 1) \div 4)}

\* the visited positions where binary[idx] === 0
EdgeSamples(img) == {p \in ScanPositions(img) : IsForeground(img, p[1], p[2])}

\* mutant: the sample count is not asked for
AcceptBoxAreaOnly(img, area, edgeCount) == 4 * area > img.w * img.h

\* mutant: a count of exactly 100 is enough
AcceptBoxFrom100(img, area, edgeCount) == 4 * area > img.w * img.h /\ edgeCount >= 100

\* mutant: a box of exactly a quarter of the frame is enough
AcceptBoxQuarterIncluded(img, area, edgeCount) ==
  4 * area >= img.w * img.h /\ edgeCount > 100

\* area > minArea && edgeCount > 100, with minArea = width * height * 0.25
AcceptBox(img, area, edgeCount) == 4 * area > img.w * img.h /\ edgeCount > 100

NoCorners == <<>>

\* mutant: the two diagonal points first
CornersDiagonalFirst(topLeft, bottomRight) ==
  <<topLeft, bottomRight,
    [x |-> bottomRight.x, y |-> topLeft.y], [x |-> topLeft.x, y |-> bottomRight.y]>>

\* corners = [topLeft, { x: bottomRight.x, y: topLeft.y }, bottomRight,
\*            { x: topLeft.x, y: bottomRight.y }]
CornersOf(topLeft, bottomRight) ==
  <<topLeft, [x |-> bottomRight.x, y |-> topLeft.y],
    bottomRight, [x |-> topLeft.x, y |-> bottomRight.y]>>

\* mutant: the fraction, not the percentage
FillAsFraction(largestArea, width, height) == [num |-> largestArea, den |-> width * height]

\* (largestArea / (width * height)) * 100
FillOf(largestArea, width, height) == [num |-> largestArea * 100, den |-> width * height]

\* a box measured to the far side of its last sample
BoxAreaToNextSample(topLeft, bottomRight) ==
  (bottomRight.x - topLeft.x + 4) * (bottomRight.y - topLeft.y + 4)

\* const area = (maxX - minX) * (maxY - minY)
BoxAreaOf(topLeft, bottomRight) ==
  (bottomRight.x - topLeft.x) * (bottomRight.y - topLeft.y)

detectDocumentEdges(img) ==
  LET samples == EdgeSamples(img)
      topLeft == [x |-> SetMin({img.w} \cup {p[1] : p \in samples}),
                  y |-> SetMin({img.h} \cup {p[2] : p \in samples})]
      bottomRight == [x |-> SetMax({0} \cup {p[1] : p \in samples}),
                      y |-> SetMax({0} \cup {p[2] : p \in samples})]
      edgeCount == Cardinality(samples)
      area == BoxAreaOf(topLeft, bottomRight)
      accepted == AcceptBox(img, area, edgeCount)
      largestArea == IF accepted THEN area ELSE 0
  IN  [corners |-> IF accepted THEN CornersOf(topLeft, bottomRight) ELSE NoCorners,
       fillPercentage |-> FillOf(largestArea, img.w, img.h)]

\* fillPercentage > 40, fillPercentage < 40
FillAbove40(fp) == fp.num > 40 * fp.den
FillBelow40(fp) == fp.num < 40 * fp.den

---------------------------------------------------------------------------
(* DocumentScanner.checkQuality, from the ImageData on                     *)

MsgPosition == "Position document in frame"
MsgMoveCloser == "Move closer"
MsgHoldSteady == "Hold steady - image is blurry"
MsgReady == "Ready to capture"

IsSharpOf(blurScore) == ScoreAbove100(blurScore)

\* mutant: a fill of exactly 40 is enough
HasDocumentEdgesFrom40(corners, fillPercentage) ==
  corners # NoCorners /\ ~FillBelow40(fillPercentage)

HasDocumentEdgesOf(corners, fillPercentage) ==
  corners # NoCorners /\ FillAbove40(fillPercentage)

\* mutant: the sharpness test comes first
QualityMessageSharpFirst(isSharp, hasDocumentEdges, fillPercentage) ==
  IF ~isSharp THEN MsgHoldSteady
  ELSE IF ~hasDocumentEdges THEN MsgPosition
  ELSE IF FillBelow40(fillPercentage) THEN MsgMoveCloser
  ELSE MsgReady

\* mutant: the fill test comes first
QualityMessageFillFirst(isSharp, hasDocumentEdges, fillPercentage) ==
  IF FillBelow40(fillPercentage) THEN MsgMoveCloser
  ELSE IF ~hasDocumentEdges THEN MsgPosition
  ELSE IF ~isSharp THEN MsgHoldSteady
  ELSE MsgReady

\* mutant: the sharpness test left out
QualityMessageReadyWhenEdges(isSharp, hasDocumentEdges, fillPercentage) ==
  IF ~hasDocumentEdges THEN MsgPosition
  ELSE IF FillBelow40(fillPercentage) THEN MsgMoveCloser
  ELSE MsgReady

QualityMessageOf(isSharp, hasDocumentEdges, fillPercentage) ==
  IF ~hasDocumentEdges THEN MsgPosition
  ELSE IF FillBelow40(fillPercentage) THEN MsgMoveCloser
  ELSE IF ~isSharp THEN MsgHoldSteady
  ELSE MsgReady

Evaluate(imageData) ==
  LET blurScore == calculateBlurScore(imageData)
      isSharp == IsSharpOf(blurScore)
      edges == detectDocumentEdges(imageData)
      hasDocumentEdges == HasDocumentEdgesOf(edges.corners, edges.fillPercentage)
  IN  [isSharp |-> isSharp,
       blurScore |-> blurScore,
       hasDocumentEdges |-> hasDocumentEdges,
       documentCorners |-> edges.corners,
       qualityMessage |-> QualityMessageOf(isSharp, hasDocumentEdges, edges.fillPercentage),
       fillPercentage |-> edges.fillPercentage]

---------------------------------------------------------------------------
(* The canvas the scanner keeps, and its two public methods                *)

\* document.createElement('canvas'): 300 x 150, transparent black
NewCanvas == [width |-> 300, height |-> 150, bitmap |-> Uniform(300, 150, Black)]

\* this.canvas.width = videoWidth; this.canvas.height = videoHeight
\* (assigning a dimension clears the bitmap)
SetCanvasSize(c, videoWidth, videoHeight) ==
  [width |-> videoWidth, height |-> videoHeight,
   bitmap |-> Uniform(videoWidth, videoHeight, Black)]

\* this.ctx.drawImage(videoElement, 0, 0, videoWidth, videoHeight): the frame
\* covers the canvas, which has just been given the frame's size; a video
\* without data draws nothing
DrawImage(c, videoElement) ==
  IF videoElement.w = 0 \/ videoElement.h = 0 THEN c ELSE [c EXCEPT !.bitmap = videoElement]

\* this.ctx.getImageData(0, 0, videoWidth, videoHeight) throws IndexSizeError
\* for a zero width or height
GetImageDataThrows(videoWidth, videoHeight) == videoWidth = 0 \/ videoHeight = 0

GetImageData(c) == c.bitmap

\* mutant: resize and redraw skipped when the canvas already has the frame's size
CanvasAfterDrawSkipSameSize(c, videoElement) ==
  IF c.width = videoElement.w /\ c.height = videoElement.h
    THEN c
    ELSE DrawImage(SetCanvasSize(c, videoElement.w, videoElement.h), videoElement)

\* the canvas after the first lines of checkQuality or captureImage
CanvasAfterDraw(c, videoElement) == DrawImage(SetCanvasSize(c, videoElement.w, videoElement.h), videoElement)

\* this.canvas.toDataURL('image/jpeg', 0.95)
ToDataURL(c) == [jpeg |-> c.bitmap]

\* Frames the scanner is given in this development.
Red == <<255, 0, 0>>
Teal == <<10, 200, 30>>

TooSmallSizes == {<<0, 0>>, <<0, 4>>, <<1, 1>>, <<1, 5>>, <<2, 2>>, <<2, 5>>, <<5, 2>>}
SmallSizes == {<<3, 3>>, <<5, 4>>}
LargeSizes == {<<41, 41>>}

GrayLevelPairs == {<<0, 1>>, <<0, 2>>, <<0, 3>>, <<0, 255>>, <<100, 255>>}

UniformFrames ==
  {Uniform(sz[1], sz[2], c) : sz \in TooSmallSizes, c \in {Black, Red}}
    \cup {Uniform(sz[1], sz[2], c) : sz \in SmallSizes, c \in {Black, White, Teal}}
    \cup {Uniform(sz[1], sz[2], c) : sz \in LargeSizes, c \in {Black, White}}

CheckerFrames ==
  {Checker(sz[1], sz[2], lv[1], lv[2]) : sz \in SmallSizes, lv \in GrayLevelPairs}
    \cup {Checker(sz[1], sz[2], lv[1], lv[2]) :
            sz \in LargeSizes, lv \in {<<0, 100>>, <<0, 255>>, <<200, 255>>}}
    \cup {Checker(2, 5, 0, 255), Checker(5, 2, 0, 255)}

\* a dark rectangle on a white background:
\*   84 x 42, a centred 42 x 42 square (half the frame), 110 samples inside
\*   38 x 76, a centred 38 x 38 square (half the frame), 100 samples inside
\*   80 x 64, 102 samples spanning 64 x 20, a quarter of the frame
\*   80 x 40, 102 samples spanning 64 x 20, two fifths of the frame
RectFrames ==
  {Rect(84, 42, Black, White, 21, 0, 63, 42),
   Rect(38, 76, Black, White, 0, 19, 38, 57),
   Rect(80, 64, Black, White, 0, 0, 65, 21),
   Rect(80, 40, Black, White, 0, 0, 65, 21)}

\* a small two-level frame that is neither uniform nor a checkerboard
SmallRectFrames == {Rect(5, 4, GrayPx(10), GrayPx(250), 2, 1, 4, 3)}

\* a sharp 40 x 40 frame with exactly 100 sample positions, all of them dark
HundredSampleFrames == {Checker(40, 40, 0, 255)}

ScanFrames ==
  UniformFrames \cup CheckerFrames \cup RectFrames \cup SmallRectFrames
    \cup HundredSampleFrames

\* Each frame is evaluated once and looked up afterwards.
EvaluateTable == [f \in ScanFrames |-> Evaluate(f)]

EvaluateOnce(imageData) ==
  IF imageData \in ScanFrames THEN EvaluateTable[imageData] ELSE Evaluate(imageData)

checkQuality(c, videoElement) ==
  IF GetImageDataThrows(videoElement.w, videoElement.h)
    THEN [threw |-> TRUE, quality |-> <<>>]
    ELSE [threw |-> FALSE,
          quality |-> <<EvaluateOnce(GetImageData(CanvasAfterDraw(c, videoElement)))>>]

\* a still read from the canvas as the last evaluation left it
captureImageStale(c, videoElement) == ToDataURL(c)

captureImage(c, videoElement) == ToDataURL(CanvasAfterDraw(c, videoElement))

---------------------------------------------------------------------------
(* The scanner called directly: checkQuality and captureImage on any       *)
(* frames, in any order, on one scanner.                                   *)

PortalInit ==
  /\ mode = "select"
  /\ selectedType = ""
  /\ documents = <<>>

\* the video element before the stream delivers a frame: videoWidth = videoHeight = 0
NoData == Uniform(0, 0, Black)

\* the component's state when it is not shown
CameraInit ==
  /\ scanQuality = <<>>
  /\ capturedImage = <<>>
  /\ isScanning = TRUE
  /\ intervalActive = FALSE
  /\ effectsPending = FALSE
  /\ micro = <<>>
  /\ video = NoData
  /\ lastEvent = "none"
  /\ retaken = FALSE
  /\ shot = <<>>
  /\ ticked = <<>>
  /\ republished = FALSE

ScanInit ==
  /\ canvas = NewCanvas
  /\ ret = <<>>
  /\ ref = <<>>
  /\ PortalInit
  /\ CameraInit

\* ref notes whether a call on another frame followed the call it keeps
OtherCallSeen(r, f) ==
  IF r # <<>> /\ r[1].call.frame # f THEN <<[r[1] EXCEPT !.interleaved = TRUE]>> ELSE r

CallCheckQuality(f) ==
  LET r == checkQuality(canvas, f)
  IN  /\ canvas' = CanvasAfterDraw(canvas, f)
      /\ ret' = <<[op |-> "checkQuality", frame |-> f, threw |-> r.threw,
                   quality |-> r.quality, still |-> <<>>]>>
      /\ ref' = OtherCallSeen(ref, f)
      /\ UNCHANGED <<portalVars, cameraVars>>

CallCaptureImage(f) ==
  /\ canvas' = CanvasAfterDraw(canvas, f)
  /\ ret' = <<[op |-> "captureImage", frame |-> f, threw |-> FALSE,
               quality |-> <<>>, still |-> <<captureImage(canvas, f)>>]>>
  /\ ref' = OtherCallSeen(ref, f)
  /\ UNCHANGED <<portalVars, cameraVars>>

\* keep the result of the last checkQuality for a later comparison
Remember ==
  /\ ret # <<>>
  /\ ret[1].op = "checkQuality"
  /\ ref' = <<[call |-> ret[1], interleaved |-> FALSE]>>
  /\ UNCHANGED <<canvas, ret, portalVars, cameraVars>>

ScanNext ==
  \/ \E f \in ScanFrames : CallCheckQuality(f)
  \/ \E f \in ScanFrames : CallCaptureImage(f)
  \/ Remember

ScanSpec == ScanInit /\ [][ScanNext]_vars

---------------------------------------------------------------------------
(* DocumentUploadPortal and DocumentCaptureCamera.                         *)
(*                                                                         *)
(* A step is one task of the page's event loop (a click handler with the   *)
(* render it causes, a timer callback up to its await, a new camera frame) *)
(* or one microtask (the rest of the timer callback).  A task starts only  *)
(* when no microtask is waiting.  A state update and the render that shows *)
(* it are one step: scanQuality is the value on display, and the Capture   *)
(* button is enabled according to it.  The effect cleanup and effect run   *)
(* that a commit schedules are a step of their own (FlushEffects), which   *)
(* may follow the commit at once or after timer and camera tasks, and      *)
(* always precedes the next render.                                        *)

DocumentTypes == {"Passport"}

MaxDocuments == 2

\* what the camera can show: nothing yet, a dark flat page, a dark/light
\* checkerboard, a light checkerboard
SourceFrames == {NoData, Uniform(41, 41, Black), Checker(41, 41, 0, 255),
                 Checker(41, 41, 200, 255)}

\* mode === 'camera' && selectedType: the portal renders DocumentCaptureCamera
CameraShown == mode = "camera" /\ selectedType # ""

\* webcamRef.current?.video: the Webcam is rendered while !capturedImage
WebcamVideo == CameraShown /\ capturedImage = <<>>

\* mutant: hasDocumentEdges not asked for
canCaptureSharpOnly == scanQuality # <<>> /\ scanQuality[1].isSharp

\* const canCapture = scanQuality?.isSharp && scanQuality?.hasDocumentEdges
canCapture ==
  /\ scanQuality # <<>>
  /\ scanQuality[1].isSharp
  /\ scanQuality[1].hasDocumentEdges

\* mutant: the button never disabled
CaptureButtonNeverDisabled == FALSE

\* <Button onClick={handleCapture} disabled={!canCapture}>
CaptureButtonDisabled == ~canCapture

\* no continuation of a callback is waiting: the next task may start
TaskBoundary == micro = <<>>

\* React runs the effects of a commit before it renders again
EffectsFlushed == ~effectsPending

\* mutant: the callback suspended across tasks, so that a later tick overlaps it
TimerMayFireWhileSuspended == intervalActive

\* the interval callback may run
TimerMayFire == intervalActive /\ TaskBoundary

\* mutant: the callback without its check of the video element
CallbackAssumesVideo == TRUE

\* if (webcamRef.current?.video) in the interval callback
CallbackSeesVideo == WebcamVideo

\* mutant: the effect returns no cleanup
NoCleanup(active) == active

\* return () => clearInterval(interval): the interval after the cleanup
AfterCleanup(active) == FALSE

\* if (!isScanning || !webcamRef.current?.video) return; setInterval(...)
EffectCreatesInterval == isScanning /\ WebcamVideo

\* mutant: handleRetake without setIsScanning(true)
handleRetakeStillStopped == [capturedImage |-> <<>>, isScanning |-> FALSE]

\* a retake that also forgets the published evaluation
scanQualityCleared(prev) == <<>>

\* handleCapture and handleRetake call setCapturedImage and setIsScanning
\* only: the published evaluation stays what it was
scanQualityKept(prev) == prev

\* mutant: handleRetake without setCapturedImage(null)
handleRetakeKeepsImage == [capturedImage |-> capturedImage, isScanning |-> TRUE]

\* setCapturedImage(null); setIsScanning(true)
handleRetake == [capturedImage |-> <<>>, isScanning |-> TRUE]

\* mutant: setDocuments([newDoc]), the earlier documents dropped
handleCameraCaptureAlone(docs, type, imageData) ==
  <<[type |-> type, imageData |-> imageData]>>

\* setDocuments(prev => [...prev, newDoc]) with newDoc = { type: selectedType, imageData }
handleCameraCapture(docs, type, imageData) ==
  Append(docs, [type |-> type, imageData |-> imageData])

\* mutant: the Cancel button wired to the capture callback
onCancelAddsDocument(docs, type) == Append(docs, [type |-> type, imageData |-> [jpeg |-> NoData]])

\* onCancel: setMode('select'); setSelectedType(''); documents is not touched
onCancel(docs, type) == docs

\* mutant: the new value merged into the one on display (isSharp kept once true)
setScanQualityMerged(prev, quality) ==
  IF prev = <<>> THEN <<quality>>
  ELSE <<[quality EXCEPT !.isSharp = prev[1].isSharp \/ quality.isSharp]>>

\* setScanQuality(quality): the state is replaced by the new object
setScanQuality(prev, quality) == <<quality>>

\* mutant: the component starts with a ready ScanQuality
InitialScanQualityReady == <<EvaluateOnce(Checker(41, 41, 0, 255))>>

\* useState<ScanQuality | null>(null)
InitialScanQuality == <<>>

\* <Select value={selectedType} onValueChange={setSelectedType}>
SelectType(t) ==
  /\ TaskBoundary
  /\ EffectsFlushed
  /\ mode = "select"
  /\ selectedType # t
  /\ selectedType' = t
  /\ lastEvent' = "select"
  /\ UNCHANGED <<canvas, mode, documents, scanQuality, capturedImage, isScanning,
                 intervalActive, effectsPending, micro, video, retaken, shot, ticked, republished, ret, ref>>

\* onClick={() => setMode('camera')} disabled={!selectedType}; the camera
\* component mounts with its initial state and a scanner of its own
UseCamera ==
  /\ TaskBoundary
  /\ EffectsFlushed
  /\ mode = "select"
  /\ selectedType # ""
  /\ Len(documents) < MaxDocuments
  /\ mode' = "camera"
  /\ scanQuality' = InitialScanQuality
  /\ capturedImage' = <<>>
  /\ isScanning' = TRUE
  /\ canvas' = NewCanvas
  /\ video' = NoData
  /\ effectsPending' = TRUE
  /\ lastEvent' = "mount"
  /\ retaken' = FALSE
  /\ shot' = <<>>
  /\ ticked' = <<>>
  /\ republished' = FALSE
  /\ UNCHANGED <<selectedType, documents, intervalActive, micro, ret, ref>>

\* the pending effect cleanup and effect run
FlushEffects ==
  /\ TaskBoundary
  /\ effectsPending
  /\ intervalActive' = (AfterCleanup(intervalActive) \/ EffectCreatesInterval)
  /\ effectsPending' = FALSE
  /\ lastEvent' = "effects"
  /\ UNCHANGED <<canvas, portalVars, scanQuality, capturedImage, isScanning, micro,
                 video, retaken, shot, ticked, republished, ret, ref>>

\* the camera delivers another frame
CameraFrame(f) ==
  /\ WebcamVideo
  /\ f # video
  /\ video' = f
  /\ lastEvent' = "frame"
  /\ UNCHANGED <<canvas, portalVars, scanQuality, capturedImage, isScanning,
                 intervalActive, effectsPending, micro, retaken, shot, ticked, republished, ret, ref>>

\* setInterval(async () => { if (webcamRef.current?.video) {
\*   const quality = await scanner.checkQuality(webcamRef.current.video); ...
\* up to the await: checkQuality has no await of its own and runs to its end
Tick ==
  /\ TimerMayFire
  /\ IF CallbackSeesVideo
       THEN LET r == checkQuality(canvas, video)
            IN  /\ canvas' = CanvasAfterDraw(canvas, video)
                /\ IF r.threw
                     THEN /\ micro' = micro
                          /\ ticked' = ticked
                          /\ lastEvent' = "evaluationThrew"
                     ELSE /\ micro' = Append(micro, r.quality[1])
                          /\ ticked' = <<video>>
                          /\ lastEvent' = "evaluate"
       ELSE /\ lastEvent' = "tickSkipped"
            /\ UNCHANGED <<canvas, micro, ticked>>
  /\ UNCHANGED <<portalVars, scanQuality, capturedImage, isScanning, intervalActive,
                 effectsPending, video, retaken, shot, republished, ret, ref>>

\* ... setScanQuality(quality) } }, after the await, with the render that
\* follows (and, before it, the effects of an earlier commit)
Resume ==
  /\ micro # <<>>
  /\ micro' = Tail(micro)
  /\ scanQuality' = IF CameraShown THEN setScanQuality(scanQuality, Head(micro)) ELSE scanQuality
  /\ intervalActive' = IF effectsPending
                         THEN AfterCleanup(intervalActive) \/ EffectCreatesInterval
                         ELSE intervalActive
  /\ effectsPending' = FALSE
  /\ lastEvent' = "publish"
  /\ republished' = IF CameraShown /\ retaken THEN TRUE ELSE republished
  /\ UNCHANGED <<canvas, portalVars, capturedImage, isScanning, video, retaken, shot, ticked, ret, ref>>

\* a click on Capture: nothing when the button is disabled, else handleCapture
ClickCapture ==
  /\ TaskBoundary
  /\ EffectsFlushed
  /\ CameraShown
  /\ capturedImage = <<>>
  /\ IF CaptureButtonDisabled
       THEN /\ lastEvent' = "captureRejected"
            /\ UNCHANGED <<canvas, capturedImage, isScanning, effectsPending, video, shot>>
       ELSE /\ WebcamVideo
            /\ canvas' = CanvasAfterDraw(canvas, video)
            /\ capturedImage' = <<captureImage(canvas, video)>>
            /\ isScanning' = FALSE
            /\ effectsPending' = TRUE
            /\ video' = NoData
            /\ shot' = <<video>>
            /\ lastEvent' = "capture"
  /\ UNCHANGED <<portalVars, scanQuality, intervalActive, micro, retaken, ticked, republished, ret, ref>>

\* a click on Retake: the Webcam is rendered again and starts without a frame
ClickRetake ==
  /\ TaskBoundary
  /\ EffectsFlushed
  /\ CameraShown
  /\ capturedImage # <<>>
  /\ capturedImage' = handleRetake.capturedImage
  /\ isScanning' = handleRetake.isScanning
  /\ effectsPending' = TRUE
  /\ lastEvent' = "retake"
  /\ retaken' = TRUE
  /\ republished' = FALSE
  /\ scanQuality' = scanQualityKept(scanQuality)
  /\ UNCHANGED <<canvas, portalVars, intervalActive, micro, video, shot, ticked, ret, ref>>

\* the component's state is dropped when the portal stops showing it
CameraUnmounted ==
  /\ scanQuality' = <<>>
  /\ capturedImage' = <<>>
  /\ isScanning' = TRUE
  /\ video' = NoData
  /\ effectsPending' = TRUE
  /\ retaken' = retaken
  /\ shot' = <<>>
  /\ ticked' = <<>>
  /\ republished' = FALSE

\* handleConfirm -> onCapture(capturedImage) = handleCameraCapture
ClickConfirm ==
  /\ TaskBoundary
  /\ EffectsFlushed
  /\ CameraShown
  /\ capturedImage # <<>>
  /\ documents' = handleCameraCapture(documents, selectedType, capturedImage[1])
  /\ mode' = "select"
  /\ selectedType' = ""
  /\ CameraUnmounted
  /\ lastEvent' = "confirm"
  /\ UNCHANGED <<canvas, intervalActive, micro, ret, ref>>

\* onCancel={() => { setMode('select'); setSelectedType(''); }}
ClickCancel ==
  /\ TaskBoundary
  /\ EffectsFlushed
  /\ CameraShown
  /\ capturedImage = <<>>
  /\ mode' = "select"
  /\ selectedType' = ""
  /\ CameraUnmounted
  /\ documents' = onCancel(documents, selectedType)
  /\ lastEvent' = "cancel"
  /\ UNCHANGED <<canvas, intervalActive, micro, ret, ref>>

Init ==
  /\ canvas = NewCanvas
  /\ ret = <<>>
  /\ ref = <<>>
  /\ PortalInit
  /\ CameraInit

Next ==
  \/ \E t \in DocumentTypes \cup {""} : SelectType(t)
  \/ UseCamera
  \/ FlushEffects
  \/ \E f \in SourceFrames : CameraFrame(f)
  \/ Tick
  \/ Resume
  \/ ClickCapture
  \/ ClickRetake
  \/ ClickConfirm
  \/ ClickCancel

Spec == Init /\ [][Next]_vars

\* The event loop runs waiting microtasks, React runs pending effects, and a
\* timer that exists fires.
FairSpec ==
  /\ Spec
  /\ WF_vars(Resume)
  /\ WF_vars(FlushEffects)
  /\ WF_vars(Tick)

---------------------------------------------------------------------------
(* Properties                                                              *)

\* the gating decision the last published ScanQuality stands for
GatingTrue ==
  scanQuality # <<>> /\ scanQuality[1].isSharp /\ scanQuality[1].hasDocumentEdges

InScanning == CameraShown /\ capturedImage = <<>>
InCaptured == CameraShown /\ capturedImage # <<>>

\* a step that starts an evaluation or publishes one
EvaluationEvents == {"evaluate", "evaluationThrew", "publish"}

\* C1: a click on Capture is accepted exactly when the published ScanQuality
\* has isSharp and hasDocumentEdges both true; with only one of them (or no
\* ScanQuality yet) the click is not accepted.
C1_CaptureIffSharpAndEdges ==
  [][/\ lastEvent' = "capture" => GatingTrue
     /\ lastEvent' = "captureRejected" => ~GatingTrue]_vars

C1_Witness ==
  /\ lastEvent = "captureRejected"
  /\ scanQuality # <<>>
  /\ scanQuality[1].isSharp # scanQuality[1].hasDocumentEdges

\* C2: in Scanning, a click on Capture while the gating decision is false
\* changes nothing: still Scanning, no still, the canvas untouched, the
\* polling interval as before.
C2_RejectedCaptureKeepsScanning ==
  [][(lastEvent' \in {"capture", "captureRejected"} /\ ~GatingTrue) =>
       /\ lastEvent' = "captureRejected"
       /\ isScanning /\ isScanning'
       /\ capturedImage = <<>> /\ capturedImage' = <<>>
       /\ UNCHANGED <<canvas, scanQuality, intervalActive, effectsPending, micro, video,
                      portalVars>>]_vars

C2_Witness ==
  /\ lastEvent = "captureRejected"
  /\ InScanning
  /\ intervalActive
  /\ scanQuality # <<>>

\* C3: an accepted capture takes one still of the frame shown, and leaves
\* Scanning; in Captured no evaluation starts and none is published, and once
\* the effects have run no interval exists.
C3_CaptureStopsPolling ==
  /\ [][lastEvent' = "capture" =>
          /\ InScanning /\ GatingTrue
          /\ capturedImage' = <<[jpeg |-> video]>>
          /\ ~isScanning']_vars
  /\ [][InCaptured => lastEvent' \notin EvaluationEvents]_vars
  /\ [](InCaptured /\ ~effectsPending => ~intervalActive)

\* a tick that fired in Captured, before the interval was cleared, and did nothing
C3_Witness == InCaptured /\ lastEvent = "tickSkipped"

\* C4: a retake leaves Captured for Scanning without a still; the interval
\* comes back; and if from some point on the controller stays in Scanning with
\* a frame available, ScanQuality values are published again and again.
VideoHasData == video.w > 0 /\ video.h > 0

C4_RetakeResumesPolling ==
  /\ [][lastEvent' = "retake" =>
          InCaptured /\ capturedImage' = <<>> /\ isScanning' /\ CameraShown']_vars
  /\ (lastEvent = "retake") ~> (intervalActive \/ ~InScanning)
  /\ <>[](InScanning /\ retaken /\ VideoHasData) => []<>(lastEvent = "publish")
  /\ (micro # <<>>) ~> (lastEvent = "publish")

C4_Witness == InScanning /\ retaken /\ lastEvent = "publish"

\* C5: never more than one evaluation between its start and its publication.
C5_AtMostOneInFlight == Len(micro) <= 1

\* an evaluation in flight after an earlier one was published
C5_Witness == Len(micro) = 1 /\ scanQuality # <<>>

\* C6: once the portal no longer shows the camera, no evaluation starts and
\* none is published, and once the effects have run no interval exists.
C6_StopHaltsPolling ==
  /\ [][~CameraShown => lastEvent' \notin EvaluationEvents]_vars
  /\ [](~CameraShown /\ ~effectsPending => ~intervalActive)

\* a tick that fired after the teardown, before the interval was cleared
C6_Witness == ~CameraShown /\ lastEvent = "tickSkipped"

\* C7: checkQuality on a frame narrower or lower than 3 pixels fails instead
\* of returning a ScanQuality.
C7_SmallFrameRejected ==
  (ret # <<>> /\ ret[1].op = "checkQuality" /\ (ret[1].frame.w < 3 \/ ret[1].frame.h < 3))
    => ret[1].threw

\* C8: two evaluations of the same frame on one scanner return the same,
\* whatever was called in between.
C8_SameFrameSameQuality ==
  (ret # <<>> /\ ref # <<>> /\ ret[1].op = "checkQuality"
     /\ ret[1].frame = ref[1].call.frame)
    => (ret[1].threw = ref[1].call.threw /\ ret[1].quality = ref[1].call.quality)

C8_Witness ==
  /\ ret # <<>> /\ ref # <<>>
  /\ ret[1].op = "checkQuality"
  /\ ret[1].frame = ref[1].call.frame
  /\ ref[1].interleaved
  /\ ret[1].quality # <<>>

AtLeast3x3(f) == f.w >= 3 /\ f.h >= 3

\* C9: a frame of one colour, at least 3 x 3, has blur score 0 and is not sharp.
C9_UniformFrameScoreZero ==
  (ret # <<>> /\ ret[1].op = "checkQuality" /\ ret[1].frame.kind = "uniform"
     /\ AtLeast3x3(ret[1].frame))
    => /\ ~ret[1].threw
       /\ ScoreIsZero(ret[1].quality[1].blurScore)
       /\ ~ret[1].quality[1].isSharp

C9_Witness ==
  /\ ret # <<>> /\ ret[1].op = "checkQuality"
  /\ ret[1].frame = Uniform(5, 4, Teal)
  /\ ret[1].quality # <<>>

IsCheckerboard(f) == f.kind = "checker" /\ AtLeast3x3(f) /\ f.a[1] < f.b[1]
Contrast(f) == f.b[1] - f.a[1]

\* C10: a checkerboard of two gray levels, at least 3 x 3, has a positive blur
\* score; of two such boards of one size the one with more contrast has the
\* higher score; the 0/255 board is sharp.
C10_CheckerboardScoreGrowsWithContrast ==
  (ret # <<>> /\ ret[1].op = "checkQuality" /\ IsCheckerboard(ret[1].frame)) =>
    /\ ~ret[1].threw
    /\ ScoreIsPositive(ret[1].quality[1].blurScore)
    /\ (ret[1].frame.a = GrayPx(0) /\ ret[1].frame.b = GrayPx(255)) =>
         (ScoreAbove100(ret[1].quality[1].blurScore) /\ ret[1].quality[1].isSharp)
    /\ (ref # <<>> /\ IsCheckerboard(ref[1].call.frame)
          /\ ref[1].call.frame.w = ret[1].frame.w /\ ref[1].call.frame.h = ret[1].frame.h
          /\ Contrast(ref[1].call.frame) < Contrast(ret[1].frame)) =>
         ScoreLess(ref[1].call.quality[1].blurScore, ret[1].quality[1].blurScore)

C10_Witness ==
  /\ ret # <<>> /\ ref # <<>>
  /\ ret[1].op = "checkQuality"
  /\ ret[1].frame = Checker(5, 4, 0, 255)
  /\ ref[1].call.frame = Checker(5, 4, 100, 255)

\* every pixel of the frame is background, luma 255
AllBackground(f) ==
  \A x \in 0 .. (f.w - 1), y \in 0 .. (f.h - 1) : Luma1000(Pix(f, x, y)) = 255000

\* C11: for a frame whose pixels are all background (luma 255) no boundary is
\* reported, the fill percentage is 0 and hasDocumentEdges is false.
C11_BackgroundFrameNoBoundary ==
  (ret # <<>> /\ ret[1].op = "checkQuality" /\ ~ret[1].threw
     /\ AllBackground(ret[1].frame))
    => /\ ret[1].quality[1].documentCorners = NoCorners
       /\ ret[1].quality[1].fillPercentage.num = 0
       /\ ~ret[1].quality[1].hasDocumentEdges

C11_Witness ==
  /\ ret # <<>> /\ ret[1].op = "checkQuality"
  /\ ret[1].frame = Uniform(41, 41, White)
  /\ ret[1].quality # <<>>
  /\ ret[1].quality[1].documentCorners = NoCorners

\* the frame is white except for a centred dark square of half the frame's area
HalfFrameSquare(f) ==
  /\ f.kind = "rect"
  /\ f.a = Black /\ f.b = White
  /\ f.x1 - f.x0 = f.y1 - f.y0
  /\ f.x0 = f.w - f.x1 /\ f.y0 = f.h - f.y1
  /\ 2 * (f.x1 - f.x0) * (f.y1 - f.y0) = f.w * f.h

\* the pixels of the rectangle whose x and y are both multiples of 4
SamplesInRect(f) ==
  {p \in (f.x0 .. (f.x1 - 1)) \X (f.y0 .. (f.y1 - 1)) : p[1] % 4 = 0 /\ p[2] % 4 = 0}

\* C12 as stated: for a white frame with a centred dark square of exactly
\* half the frame's area a boundary is accepted, the fill percentage is about
\* 50 (between 40 and 60) and hasDocumentEdges is true.
C12_HalfSquareAccepted ==
  (ret # <<>> /\ ret[1].op = "checkQuality" /\ ~ret[1].threw
     /\ HalfFrameSquare(ret[1].frame))
    => LET q == ret[1].quality[1]
       IN  /\ q.documentCorners # NoCorners
           /\ q.fillPercentage.num >= 40 * q.fillPercentage.den
           /\ q.fillPercentage.num <= 60 * q.fillPercentage.den
           /\ q.hasDocumentEdges

\* C12, amended: for such a frame, when more than 100 sampled pixels lie in
\* the square a boundary is accepted, the fill percentage is above 40 and
\* below 50 and hasDocumentEdges is true; when 100 or fewer do, no boundary is
\* reported, the fill percentage is 0 and hasDocumentEdges is false.
C12_HalfSquareAcceptedWhenSampled ==
  (ret # <<>> /\ ret[1].op = "checkQuality" /\ ~ret[1].threw
     /\ HalfFrameSquare(ret[1].frame))
    => LET q == ret[1].quality[1]
           n == Cardinality(SamplesInRect(ret[1].frame))
       IN  /\ n > 100 =>
                /\ q.documentCorners # NoCorners
                /\ q.fillPercentage.num > 40 * q.fillPercentage.den
                /\ q.fillPercentage.num < 50 * q.fillPercentage.den
                /\ q.hasDocumentEdges
           /\ n <= 100 =>
                /\ q.documentCorners = NoCorners
                /\ q.fillPercentage.num = 0
                /\ ~q.hasDocumentEdges

C12_Witness ==
  /\ ret # <<>> /\ ret[1].op = "checkQuality"
  /\ ret[1].frame = Rect(84, 42, Black, White, 21, 0, 63, 42)
  /\ ret[1].quality # <<>>
  /\ ret[1].quality[1].hasDocumentEdges

\* C13: whenever hasDocumentEdges is false the message is "Position document
\* in frame", for a sharp frame and for a blurry one.
C13_NoEdgesAsksToPosition ==
  (ret # <<>> /\ ret[1].op = "checkQuality" /\ ~ret[1].threw
     /\ ~ret[1].quality[1].hasDocumentEdges)
    => ret[1].quality[1].qualityMessage = "Position document in frame"

\* a blurry frame without edges after a sharp frame without edges
C13_Witness ==
  /\ ret # <<>> /\ ref # <<>>
  /\ ret[1].op = "checkQuality" /\ ret[1].quality # <<>>
  /\ ref[1].call.quality # <<>>
  /\ ~ret[1].quality[1].hasDocumentEdges /\ ~ret[1].quality[1].isSharp
  /\ ~ref[1].call.quality[1].hasDocumentEdges /\ ref[1].call.quality[1].isSharp
  /\ ret[1].quality[1].qualityMessage = "Position document in frame"
  /\ ref[1].call.quality[1].qualityMessage = "Position document in frame"

\* C14: Confirm acts only in Captured; the caller receives the still of the
\* frame that was on display at the most recent accepted Capture click, adds
\* one document with that image and stops showing the camera.
C14_ConfirmHandsLastStill ==
  [][lastEvent' = "confirm" =>
       /\ InCaptured
       /\ shot # <<>>
       /\ documents' = Append(documents, [type |-> selectedType,
                                          imageData |-> [jpeg |-> shot[1]]])
       /\ ~CameraShown']_vars

\* a second document confirmed after a retake, with another still than the first
C14_Witness ==
  /\ lastEvent = "confirm"
  /\ retaken
  /\ Len(documents) = 2
  /\ documents[1].imageData # documents[2].imageData

\* C15: Cancel ends the session without a document: the step leaves the
\* document list as it was and the camera is no longer shown, and while a
\* camera is shown no confirm (the only call of onCapture) has happened in
\* its session.
C15_CancelAddsNoDocument ==
  /\ [][lastEvent' = "cancel" =>
          /\ CameraShown
          /\ documents' = documents
          /\ ~CameraShown']_vars
  /\ [](CameraShown => lastEvent # "confirm")

\* a cancel after a capture and a retake, with an earlier document still listed
C15_Witness ==
  /\ lastEvent = "cancel"
  /\ retaken
  /\ Len(documents) = 1

\* the pixels with x and y both multiples of 4 whose luma is at most 128
ForegroundSamples(f) ==
  {p \in (0 .. (f.w - 1)) \X (0 .. (f.h - 1)) :
     p[1] % 4 = 0 /\ p[2] % 4 = 0 /\ Luma1000(Pix(f, p[1], p[2])) <= 128000}

MinX(S) == CHOOSE v \in {p[1] : p \in S} : \A p \in S : v <= p[1]
MaxX(S) == CHOOSE v \in {p[1] : p \in S} : \A p \in S : v >= p[1]
MinY(S) == CHOOSE v \in {p[2] : p \in S} : \A p \in S : v <= p[2]
MaxY(S) == CHOOSE v \in {p[2] : p \in S} : \A p \in S : v >= p[2]

\* the area of the bounding box of a set of positions (0 for no position)
BoundingBoxArea(S) ==
  IF S = {} THEN 0 ELSE (MaxX(S) - MinX(S)) * (MaxY(S) - MinY(S))

C17_FillIsBoxShareOfFrame ==
  (ret # <<>> /\ ret[1].op = "checkQuality" /\ ~ret[1].threw)
    => LET q == ret[1].quality[1]
           f == ret[1].frame
       IN  /\ q.fillPercentage.den = f.w * f.h
           /\ q.documentCorners # NoCorners =>
                q.fillPercentage.num = 100 * BoundingBoxArea(ForegroundSamples(f))
           /\ q.documentCorners = NoCorners => q.fillPercentage.num = 0
           /\ q.fillPercentage.num >= 0
           /\ q.fillPercentage.num <= 100 * q.fillPercentage.den

\* fill 100 * 1600 / 1681 for an all-dark 41 x 41 frame, after fill 0 for a
\* frame whose box was refused
C17_Witness ==
  /\ ret # <<>> /\ ref # <<>>
  /\ ret[1].op = "checkQuality"
  /\ ret[1].frame = Uniform(41, 41, Black)
  /\ ret[1].quality[1].fillPercentage = [num |-> 160000, den |-> 1681]
  /\ ref[1].call.frame = Rect(38, 76, Black, White, 0, 19, 38, 57)
  /\ ref[1].call.quality[1].fillPercentage.num = 0

\* C18: a reported boundary is four points, top-left, top-right, bottom-right,
\* bottom-left, of an axis-aligned rectangle: the first and fourth have the
\* least x, the second and third the greatest x, the first and second the
\* least y, the third and fourth the greatest y (of the foreground samples),
\* and every point lies inside the frame.
C18_CornersAreOrderedRectangle ==
  (ret # <<>> /\ ret[1].op = "checkQuality" /\ ~ret[1].threw
     /\ ret[1].quality[1].documentCorners # NoCorners)
    => LET c == ret[1].quality[1].documentCorners
           f == ret[1].frame
           S == ForegroundSamples(f)
       IN  /\ Len(c) = 4
           /\ c[1].x = MinX(S) /\ c[4].x = MinX(S)
           /\ c[2].x = MaxX(S) /\ c[3].x = MaxX(S)
           /\ c[1].y = MinY(S) /\ c[2].y = MinY(S)
           /\ c[3].y = MaxY(S) /\ c[4].y = MaxY(S)
           /\ \A i \in 1 .. 4 : c[i].x \in 0 .. (f.w - 1) /\ c[i].y \in 0 .. (f.h - 1)

\* the boundary of the centred 42 x 42 square in the 84 x 42 frame
C18_Witness ==
  /\ ret # <<>> /\ ret[1].op = "checkQuality"
  /\ ret[1].frame = Rect(84, 42, Black, White, 21, 0, 63, 42)
  /\ ret[1].quality # <<>>
  /\ ret[1].quality[1].documentCorners =
       <<[x |-> 24, y |-> 0], [x |-> 60, y |-> 0], [x |-> 60, y |-> 40], [x |-> 24, y |-> 40]>>

\* C19: boundary detection depends only on the pixels whose x and y are both
\* multiples of 4, and only on whether their luma is at most 128: two frames
\* of one size with the same such foreground pixels get the same corners and
\* the same fill percentage.
C19_OnlySampledPixelsMatter ==
  (/\ ret # <<>> /\ ref # <<>>
   /\ ret[1].op = "checkQuality" /\ ~ret[1].threw /\ ~ref[1].call.threw
   /\ ret[1].frame.w = ref[1].call.frame.w
   /\ ret[1].frame.h = ref[1].call.frame.h
   /\ ForegroundSamples(ret[1].frame) = ForegroundSamples(ref[1].call.frame))
    => /\ ret[1].quality[1].documentCorners = ref[1].call.quality[1].documentCorners
       /\ ret[1].quality[1].fillPercentage = ref[1].call.quality[1].fillPercentage

\* the 0/255 checkerboard, dark at every sampled pixel and light at every
\* second pixel between them, gets the boundary of the all-dark frame
C19_Witness ==
  /\ ret # <<>> /\ ref # <<>>
  /\ ret[1].op = "checkQuality"
  /\ ret[1].frame = Checker(41, 41, 0, 255)
  /\ ref[1].call.frame = Uniform(41, 41, Black)
  /\ ret[1].quality[1].documentCorners # NoCorners
  /\ ret[1].quality[1].documentCorners = ref[1].call.quality[1].documentCorners

\* C20: hasDocumentEdges is true exactly when a boundary is reported and the
\* fill percentage is above 40; a boundary with a fill of 40 or less gives
\* false.
C20_EdgesIffBoundaryAndFillAbove40 ==
  (ret # <<>> /\ ret[1].op = "checkQuality" /\ ~ret[1].threw)
    => LET q == ret[1].quality[1]
       IN  q.hasDocumentEdges
             <=> (/\ q.documentCorners # NoCorners
                  /\ q.fillPercentage.num > 40 * q.fillPercentage.den)

\* a boundary with fill exactly 40 (1280 of 3200) and hasDocumentEdges false,
\* after a boundary with fill 40.8 and hasDocumentEdges true
C20_Witness ==
  /\ ret # <<>> /\ ref # <<>>
  /\ ret[1].op = "checkQuality"
  /\ ret[1].frame = Rect(80, 40, Black, White, 0, 0, 65, 21)
  /\ ret[1].quality[1].documentCorners # NoCorners
  /\ ret[1].quality[1].fillPercentage = [num |-> 128000, den |-> 3200]
  /\ ~ret[1].quality[1].hasDocumentEdges
  /\ ref[1].call.frame = Rect(84, 42, Black, White, 21, 0, 63, 42)
  /\ ref[1].call.quality[1].hasDocumentEdges

\* C21: no evaluation carries the message "Move closer", and whenever
\* hasDocumentEdges is true the fill percentage is above 40.
C21_MoveCloserNeverProduced ==
  (ret # <<>> /\ ret[1].op = "checkQuality" /\ ~ret[1].threw)
    => LET q == ret[1].quality[1]
       IN  /\ q.qualityMessage # "Move closer"
           /\ q.hasDocumentEdges => q.fillPercentage.num > 40 * q.fillPercentage.den

\* a boundary with fill 40, the nearest to the branch, is asked to position
\* the document, after a frame with edges
C21_Witness ==
  /\ ret # <<>> /\ ref # <<>>
  /\ ret[1].op = "checkQuality"
  /\ ret[1].frame = Rect(80, 40, Black, White, 0, 0, 65, 21)
  /\ ret[1].quality[1].documentCorners # NoCorners
  /\ ret[1].quality[1].qualityMessage = "Position document in frame"
  /\ ref[1].call.quality # <<>>
  /\ ref[1].call.quality[1].hasDocumentEdges
  /\ ref[1].call.quality[1].qualityMessage # "Move closer"

\* C22: the message is "Ready to capture" exactly when isSharp and
\* hasDocumentEdges are both true, and "Hold steady - image is blurry"
\* exactly when hasDocumentEdges is true and isSharp is false.
C22_MessageAgreesWithGating ==
  (ret # <<>> /\ ret[1].op = "checkQuality" /\ ~ret[1].threw)
    => LET q == ret[1].quality[1]
       IN  /\ (q.qualityMessage = "Ready to capture")
                <=> (q.isSharp /\ q.hasDocumentEdges)
           /\ (q.qualityMessage = "Hold steady - image is blurry")
                <=> (q.hasDocumentEdges /\ ~q.isSharp)

\* a blurry frame with edges told to hold steady, after a sharp one with
\* edges told it is ready
C22_Witness ==
  /\ ret # <<>> /\ ref # <<>>
  /\ ret[1].op = "checkQuality" /\ ret[1].quality # <<>>
  /\ ret[1].quality[1].hasDocumentEdges /\ ~ret[1].quality[1].isSharp
  /\ ret[1].quality[1].qualityMessage = "Hold steady - image is blurry"
  /\ ref[1].call.quality # <<>>
  /\ ref[1].call.quality[1].hasDocumentEdges /\ ref[1].call.quality[1].isSharp
  /\ ref[1].call.quality[1].qualityMessage = "Ready to capture"

\* both colours of the frame are gray levels
GrayFrame(f) == \A c \in {f.a, f.b} : c[1] = c[2] /\ c[2] = c[3]

\* the gray level of a pixel of a gray frame
Level(f, x, y) == Pix(f, x, y)[1]

Neighbours(x, y) ==
  {<<x + dx, y + dy>> : dx \in {-1, 0, 1}, dy \in {-1, 0, 1}} \ {<<x, y>>}

RECURSIVE SumLevels(_, _)
SumLevels(f, S) ==
  IF S = {} THEN 0
  ELSE LET p == CHOOSE q \in S : TRUE
       IN  Level(f, p[1], p[2]) + SumLevels(f, S \ {p})

\* centre weight +8, each of the eight neighbours -1
Response(f, x, y) == 8 * Level(f, x, y) - SumLevels(f, Neighbours(x, y))

InteriorPixels(f) == (1 .. (f.w - 2)) \X (1 .. (f.h - 2))

RECURSIVE SumSquaredResponses(_, _)
SumSquaredResponses(f, S) ==
  IF S = {} THEN 0
  ELSE LET p == CHOOSE q \in S : TRUE
       IN  Response(f, p[1], p[2]) * Response(f, p[1], p[2])
             + SumSquaredResponses(f, S \ {p})

\* C23: for a frame of at least 3 x 3 the blur score is the sum over the
\* interior pixels of the squared 8-neighbour Laplacian response divided by
\* (W - 2) * (H - 2) (recomputed here for the gray frames of 3 x 3 and 5 x 4);
\* it is never negative, and isSharp is true exactly when it is above 100.
C23_BlurScoreIsMeanSquaredLaplacian ==
  (ret # <<>> /\ ret[1].op = "checkQuality" /\ AtLeast3x3(ret[1].frame))
    => /\ ~ret[1].threw
       /\ LET q == ret[1].quality[1]
              f == ret[1].frame
              s == q.blurScore
          IN  /\ s.count = (f.w - 2) * (f.h - 2)
              /\ s.variance.hi >= 0 /\ s.variance.lo >= 0 /\ s.variance.lo < 1000000
              /\ q.isSharp <=> (\/ s.variance.hi > 100 * s.count
                                \/ s.variance.hi = 100 * s.count /\ s.variance.lo > 0)
              /\ (GrayFrame(f) /\ <<f.w, f.h>> \in SmallSizes) =>
                   /\ s.variance.hi = SumSquaredResponses(f, InteriorPixels(f))
                   /\ s.variance.lo = 0

\* the 5 x 4 frame with a 2 x 2 patch: six interior pixels with different responses
C23_Witness ==
  /\ ret # <<>> /\ ret[1].op = "checkQuality"
  /\ ret[1].frame = Rect(5, 4, GrayPx(10), GrayPx(250), 2, 1, 4, 3)
  /\ ret[1].quality # <<>>
  /\ ret[1].quality[1].blurScore.count = 6
  /\ ret[1].quality[1].blurScore.variance.hi > 0
  /\ ret[1].quality[1].isSharp

\* steps that may change the ScanQuality on display: a publication, and the
\* mounting and unmounting of the camera
DisplayEvents == {"publish", "mount", "confirm", "cancel"}

\* C24: in Scanning, with no publication pending, the ScanQuality on display
\* is the evaluation of the frame the most recent tick that returned a result
\* worked on (nothing before the first); a publication puts exactly that
\* evaluation on display, and no other step changes what is on display.
C24_DisplayIsLastTickResult ==
  /\ []((InScanning /\ micro = <<>>) =>
          IF ticked = <<>> THEN scanQuality = <<>>
          ELSE scanQuality = <<EvaluateOnce(ticked[1])>>)
  /\ [][/\ (lastEvent' = "publish" /\ CameraShown') =>
             (ticked # <<>> /\ scanQuality' = <<EvaluateOnce(ticked[1])>>)
        /\ lastEvent' \notin DisplayEvents => scanQuality' = scanQuality]_vars

\* after a retake (so a ready result was on display) the result of a frame
\* without edges has taken its place
C24_Witness ==
  /\ InScanning /\ retaken
  /\ lastEvent = "publish"
  /\ ticked = <<Checker(41, 41, 200, 255)>>
  /\ scanQuality # <<>>
  /\ ~scanQuality[1].hasDocumentEdges

\* C25: the camera is mounted in Scanning with no still and no ScanQuality,
\* and a click on Capture is accepted only after a tick has evaluated a frame
\* with isSharp and hasDocumentEdges both true and that result is on display.
C25_StartsScanningWithoutQuality ==
  /\ []((lastEvent = "mount") =>
          (InScanning /\ isScanning /\ capturedImage = <<>> /\ scanQuality = <<>>))
  /\ []((CameraShown /\ ticked = <<>>) => scanQuality = <<>>)
  /\ [][lastEvent' = "capture" =>
          /\ ticked # <<>>
          /\ scanQuality = <<EvaluateOnce(ticked[1])>>
          /\ scanQuality[1].isSharp /\ scanQuality[1].hasDocumentEdges]_vars

\* the first capture of a session
C25_Witness ==
  /\ lastEvent = "capture"
  /\ ~retaken
  /\ InCaptured

\* C26: isScanning is true exactly when no still is held; the controller is
\* in exactly one of Scanning and Captured.
C26_ScanningIffNoStill ==
  /\ isScanning <=> (capturedImage = <<>>)
  /\ CameraShown => (InScanning /\ isScanning) \/ (InCaptured /\ ~isScanning)

\* Captured for the second time in a session, after a retake
C26_Witness ==
  /\ InCaptured /\ ~isScanning
  /\ retaken
  /\ lastEvent = "capture"

\* C27: a capture click and a retake leave the published ScanQuality as it
\* was; so from a retake until the next publication the gating decision is
\* the one that permitted the capture, and a second capture is accepted on it
C27_CaptureRetakeKeepQuality ==
  /\ [][lastEvent' \in {"capture", "captureRejected", "retake"}
          => scanQuality' = scanQuality]_vars
  /\ []((CameraShown /\ retaken /\ ~republished) => GatingTrue)
  /\ []((InScanning /\ retaken /\ ~republished) => ~CaptureButtonDisabled)

\* a second capture was accepted after a retake with no publication between
C27_Witness ==
  /\ lastEvent = "capture"
  /\ retaken
  /\ ~republished
  /\ InCaptured
  /\ GatingTrue

\* C28: the still of an accepted capture is the frame the source shows at
\* the click, and the click evaluates nothing; the frame captured need not
\* be the frame whose ScanQuality permitted the capture
C28_StillIsFrameAtClick ==
  /\ [](InCaptured => (shot # <<>> /\ capturedImage = <<[jpeg |-> shot[1]]>>))
  /\ [][lastEvent' = "capture" /\ capturedImage' # capturedImage
          => /\ capturedImage' = <<[jpeg |-> video]>>
             /\ scanQuality' = scanQuality
             /\ ticked' = ticked
             /\ micro' = micro]_vars

\* a capture permitted by the evaluation of one frame took another frame,
\* one whose own evaluation would not have permitted it
C28_Witness ==
  /\ lastEvent = "capture"
  /\ InCaptured
  /\ ticked # <<>>
  /\ scanQuality = <<EvaluateOnce(ticked[1])>>
  /\ shot # ticked
  /\ shot[1] # NoData
  /\ capturedImage = <<[jpeg |-> shot[1]]>>
  /\ ~(EvaluateOnce(shot[1]).isSharp /\ EvaluateOnce(shot[1]).hasDocumentEdges)

SamplePositionCount(f) == ((f.w + 3) \div 4) * ((f.h + 3) \div 4)

\* C30: a frame with at most 100 stride-4 sample positions gets no boundary
\* whatever it shows: hasDocumentEdges is false, the message is "Position
\* document in frame", and its ScanQuality does not permit a capture
C30_AtMost100PositionsNoBoundary ==
  (ret # <<>> /\ ret[1].op = "checkQuality" /\ ~ret[1].threw
     /\ SamplePositionCount(ret[1].frame) <= 100)
    => LET q == ret[1].quality[1]
       IN  /\ q.documentCorners = NoCorners
           /\ q.fillPercentage.num = 0
           /\ ~q.hasDocumentEdges
           /\ q.qualityMessage = MsgPosition
           /\ ~(q.isSharp /\ q.hasDocumentEdges)

\* a sharp frame with exactly 100 positions, every one of them dark, is
\* refused; the all-dark frame with 121 positions before it was not
C30_Witness ==
  /\ ret # <<>> /\ ref # <<>>
  /\ ret[1].op = "checkQuality" /\ ~ret[1].threw
  /\ ret[1].frame = Checker(40, 40, 0, 255)
  /\ SamplePositionCount(ret[1].frame) = 100
  /\ Cardinality(ForegroundSamples(ret[1].frame)) = 100
  /\ ret[1].quality[1].isSharp
  /\ ret[1].quality[1].documentCorners = NoCorners
  /\ ret[1].quality[1].qualityMessage = MsgPosition
  /\ ref[1].call.frame = Uniform(41, 41, Black)
  /\ ref[1].call.quality[1].documentCorners # NoCorners

=============================================================================
